---- MODULE Spec2Model ----
(***************************************************************************)
(* pywlroots: the protocol-header checker (check_headers.py) and the Seat  *)
(* wrapper (wlroots/types/seat.py).                                        *)
(*                                                                         *)
(* check_headers.py is one process run: parse_args, then check or          *)
(* generate.  The include directory survives between runs; everything else *)
(* is recomputed.  wayland-scanner and pkgconf are external tools: what    *)
(* they do for a given input is part of the environment (scanner, env) and *)
(* stays the same from one run to the next.                                *)
(***************************************************************************)
EXTENDS Integers, Sequences, FiniteSets, TLC

\* Longest header (in lines) in the runs where every file of the include
\* directory and every output of wayland-scanner varies.
MaxLines == 1
\* Longest header in the runs where only the first document's two headers vary.
CmpMaxLines == 2
\* Longest sequence of destroy() / __exit__ calls made on the Seat.
MaxSeatCalls == 3

VARIABLES
    fs,                 \* directory path -> (file name -> list of lines)
    scanner,            \* protocol document -> what wayland-scanner does for it
    env,                \* command line, pkgconf's behaviour, documents on disk
    pc,                 \* position of the run
    protocols,          \* list returned by parse_args
    generate_headers,   \* flag returned by parse_args
    i,                  \* index of protocol_xml in protocols (1-based)
    protocol_header,    \* lines of the checked-in header being compared
    generated_header,   \* lines of the generated header being compared
    output_dir,         \* the temporary directory of the with block, "" if none
    error,              \* the exception that ended the run
    printed,            \* what the run printed
    invoked,            \* documents wayland-scanner was run on, in order
    include0,           \* the include directory when the run started
    prev,               \* how the previous run went
    seat                \* the Seat wrapper and the native seat behind it

vars == <<fs, scanner, env, pc, protocols, generate_headers, i, protocol_header,
          generated_header, output_dir, error, printed, invoked, include0, prev,
          seat>>

Range(s) == {s[k] : k \in DOMAIN s}
Min(S) == CHOOSE m \in S : \A n \in S : m <= n
SeqsUpTo(S, n) == UNION {[1..k -> S] : k \in 0..n}

----------------------------------------------------------------------------
(* Text files.  A file is the list f.readlines() returns: every line ends  *)
(* with a newline except possibly the last one.                            *)

Text == {"a", "b"}
Line == [text : Text, nl : BOOLEAN]
ReadLines(n) ==
    {f \in SeqsUpTo(Line, n) : \A k \in 1..(Len(f) - 1) : f[k].nl}
TerminatedFiles(n) == {f \in ReadLines(n) : \A k \in DOMAIN f : f[k].nl}

\* line.strip("\n"): the line without its newline
strip(line) == line.text

----------------------------------------------------------------------------
(* Configuration tables and paths.                                         *)

INCLUDE_PATH == "wlroots/include"
WAYLAND_PROCOTOLS ==
    <<"stable/xdg-shell/xdg-shell.xml",
      "unstable/idle-inhibit/idle-inhibit-unstable-v1.xml",
      "unstable/pointer-constraints/pointer-constraints-unstable-v1.xml">>
WLROOTS_PROTOCOLS ==
    <<"protocol/idle.xml",
      "protocol/wlr-output-power-management-unstable-v1.xml",
      "protocol/wlr-layer-shell-unstable-v1.xml">>
\* The runs explored configure the first entry of each table; the loops of
\* parse_args, check and generate treat every entry alike.
Configured(table) == SubSeq(table, 1, 1)

\* pathlib: dir / rel, path.stem, path.name
Join(dir, rel) == [dir |-> dir, rel |-> rel]
Stem(xml_file) ==
    CASE xml_file.rel = "stable/xdg-shell/xdg-shell.xml" -> "xdg-shell"
      [] xml_file.rel = "unstable/idle-inhibit/idle-inhibit-unstable-v1.xml" ->
             "idle-inhibit-unstable-v1"
      [] xml_file.rel =
             "unstable/pointer-constraints/pointer-constraints-unstable-v1.xml" ->
             "pointer-constraints-unstable-v1"
      [] xml_file.rel = "protocol/idle.xml" -> "idle"
      [] xml_file.rel = "protocol/wlr-output-power-management-unstable-v1.xml" ->
             "wlr-output-power-management-unstable-v1"
      [] xml_file.rel = "protocol/wlr-layer-shell-unstable-v1.xml" ->
             "wlr-layer-shell-unstable-v1"
Name(xml_file) == Stem(xml_file) \o ".xml"

header_filename(xml_file) == Stem(xml_file) \o "-protocol.h"

\* A header left in the include directory by a protocol no longer configured.
StaleHeader == "xdg-decoration-unstable-v1-protocol.h"

----------------------------------------------------------------------------
(* Directories.                                                            *)

EmptyDir == [n \in {} |-> <<>>]
WriteFile(dir, name, lines) ==
    [n \in (DOMAIN dir) \cup {name} |-> IF n = name THEN lines ELSE dir[n]]
MkDir(f, path) ==
    [p \in (DOMAIN f) \cup {path} |-> IF p = path THEN EmptyDir ELSE f[p]]
RmTree(f, path) == [p \in (DOMAIN f) \ {path} |-> f[p]]

TmpDirs(f) == (DOMAIN f) \ {INCLUDE_PATH}
\* tempfile.TemporaryDirectory().__enter__: a directory that does not exist yet
mkdtemp(f) == "/tmp/tmp" \o ToString(Cardinality(DOMAIN f))

\* tempfile.TemporaryDirectory().__exit__, on both the normal and the
\* exceptional way out of the with block
TmpDirExit_leak(f, dir) == f
TmpDirExit_unlink(f, dir) ==
    [p \in (DOMAIN f) \ {dir} |->
        IF p = INCLUDE_PATH
        THEN [n \in (DOMAIN f[p]) \ (DOMAIN f[dir]) |-> f[p][n]]
        ELSE f[p]]
TmpDirExit(f, dir) == RmTree(f, dir)

----------------------------------------------------------------------------
(* wayland-scanner.  A run exits 0 or not, and writes its output file or   *)
(* not; a failing run may leave a truncated output behind.                 *)

ScannerRuns(files) ==
    {[exit |-> 0, write |-> TRUE, out |-> f] : f \in files}
    \cup {[exit |-> 0, write |-> FALSE, out |-> <<>>],
          [exit |-> 1, write |-> FALSE, out |-> <<>>],
          [exit |-> 1, write |-> TRUE, out |-> <<>>]}

generate_protocol_header_xml_name(f, input_xml, dir, run) ==
    [fs |-> IF run.write
            THEN [f EXCEPT ![dir] =
                     WriteFile(@, Name(input_xml), run.out)]
            ELSE f,
     raised |-> run.exit # 0,
     output_path |-> [dir |-> dir, name |-> header_filename(input_xml)]]
generate_protocol_header_include(f, input_xml, dir, run) ==
    [fs |-> IF run.write
            THEN [f EXCEPT ![INCLUDE_PATH] =
                     WriteFile(@, header_filename(input_xml), run.out)]
            ELSE f,
     raised |-> run.exit # 0,
     output_path |-> [dir |-> dir, name |-> header_filename(input_xml)]]
generate_protocol_header_unchecked(f, input_xml, dir, run) ==
    [fs |-> IF run.write
            THEN [f EXCEPT ![dir] =
                     WriteFile(@, header_filename(input_xml), run.out)]
            ELSE f,
     raised |-> FALSE,
     output_path |-> [dir |-> dir, name |-> header_filename(input_xml)]]
generate_protocol_header(f, input_xml, dir, run) ==
    [fs |-> IF run.write
            THEN [f EXCEPT ![dir] =
                     WriteFile(@, header_filename(input_xml), run.out)]
            ELSE f,
     raised |-> run.exit # 0,
     output_path |-> [dir |-> dir, name |-> header_filename(input_xml)]]

----------------------------------------------------------------------------
(* Errors.                                                                  *)

NoError == [kind |-> "none"]
Raised == error.kind # "none"

\* check, lines 49-59
FilenameSets_swapped(expected_protocol_files, protocol_files) ==
    IF expected_protocol_files # protocol_files
    THEN [kind |-> "names",
          missing |-> protocol_files \ expected_protocol_files,
          extra |-> expected_protocol_files \ protocol_files]
    ELSE NoError
FilenameSets(expected_protocol_files, protocol_files) ==
    IF expected_protocol_files # protocol_files
    THEN [kind |-> "names",
          missing |-> expected_protocol_files \ protocol_files,
          extra |-> protocol_files \ expected_protocol_files]
    ELSE NoError

\* check, lines 73-82; zip stops at the shorter list, enumerate counts from 0
Mismatch(header, generated, xml_name, k, reported) ==
    [error |-> [kind |-> "mismatch", name |-> xml_name, line |-> reported],
     printed |-> << <<"Expected:", strip(generated[k])>>,
                    <<"Got:", strip(header[k])>> >>]
Zipped(header, generated) ==
    {k \in DOMAIN header : k \in DOMAIN generated}
Compare_no_count(header, generated, xml_name) ==
    LET diff == {k \in Zipped(header, generated) : generated[k] # header[k]}
    IN  IF diff = {}
        THEN [error |-> NoError, printed |-> <<>>]
        ELSE Mismatch(header, generated, xml_name, Min(diff), Min(diff) - 1)
Compare_one_based(header, generated, xml_name) ==
    IF Len(header) # Len(generated)
    THEN [error |-> [kind |-> "linecount", name |-> xml_name],
          printed |-> <<>>]
    ELSE LET diff == {k \in Zipped(header, generated) : generated[k] # header[k]}
         IN  IF diff = {}
             THEN [error |-> NoError, printed |-> <<>>]
             ELSE Mismatch(header, generated, xml_name, Min(diff), Min(diff))
Compare(header, generated, xml_name) ==
    IF Len(header) # Len(generated)
    THEN [error |-> [kind |-> "linecount", name |-> xml_name],
          printed |-> <<>>]
    ELSE LET diff == {k \in Zipped(header, generated) : generated[k] # header[k]}
         IN  IF diff = {}
             THEN [error |-> NoError, printed |-> <<>>]
             ELSE Mismatch(header, generated, xml_name, Min(diff), Min(diff) - 1)

----------------------------------------------------------------------------
(* Command line.                                                            *)

ExistingDirs ==
    {"/usr/share/wayland-protocols", "/opt/wayland-protocols", "/src/wlroots"}
PkgconfRuns ==
    {[started |-> FALSE, exit |-> 1, output |-> ""],
     [started |-> TRUE, exit |-> 1, output |-> ""],
     [started |-> TRUE, exit |-> 0, output |-> ""],
     [started |-> TRUE, exit |-> 0, output |-> "/usr/share/wayland-protocols"],
     [started |-> TRUE, exit |-> 0, output |-> "/nonexistent"]}

\* subprocess.check_output raises CalledProcessError on a non-zero exit, and
\* FileNotFoundError (not a CalledProcessError) when pkgconf cannot be started
get_wayland_protocols_dir(run) ==
    IF ~run.started THEN [raised |-> TRUE, value |-> "None"]
    ELSE IF run.exit # 0 THEN [raised |-> FALSE, value |-> "None"]
    ELSE IF run.output # "" THEN [raised |-> FALSE, value |-> run.output]
    ELSE [raised |-> FALSE, value |-> "None"]

Exists(e, xml_file) == xml_file.dir \in ExistingDirs /\ xml_file.rel \in e.xml

Protocols(wayland_dir, wlroots_dir) ==
    [k \in DOMAIN Configured(WAYLAND_PROCOTOLS) |->
        Join(wayland_dir, WAYLAND_PROCOTOLS[k])]
    \o [k \in DOMAIN Configured(WLROOTS_PROTOCOLS) |->
           Join(wlroots_dir, WLROOTS_PROTOCOLS[k])]

\* The default of --wayland-dir is computed while the parser is built, before
\* the command line is read.
parse_args(e) ==
    LET default == get_wayland_protocols_dir(e.pkgconf)
        wayland_dir ==
            IF e.wayland_dir # "None" THEN e.wayland_dir ELSE default.value
        list == Protocols(wayland_dir, e.wlroots_dir)
        absent == {k \in DOMAIN list : ~Exists(e, list[k])}
        failed(err) == [error |-> err, protocols |-> <<>>, generate |-> FALSE]
    IN  IF default.raised THEN failed([kind |-> "pkgconf"])
        ELSE IF e.wlroots_dir = "None" THEN failed([kind |-> "usage"])
        ELSE IF wayland_dir = "None" \/ wayland_dir \notin ExistingDirs
             THEN failed([kind |-> "wayland_dir", name |-> wayland_dir])
        ELSE IF e.wlroots_dir \notin ExistingDirs
             THEN failed([kind |-> "wlroots_dir", name |-> e.wlroots_dir])
        ELSE IF absent # {}
             THEN failed([kind |-> "protocol", name |-> list[Min(absent)]])
        ELSE [error |-> NoError, protocols |-> list, generate |-> e.generate]

----------------------------------------------------------------------------
(* One run of check_headers.py.                                             *)

Include == fs[INCLUDE_PATH]
Expected(list) == {header_filename(list[k]) : k \in DOMAIN list}

\* __main__, lines 118-123
ParseArgs ==
    /\ pc = "start"
    /\ LET r == parse_args(env)
       IN  /\ protocols' = r.protocols
           /\ generate_headers' = r.generate
           /\ error' = r.error
           /\ pc' = IF r.error.kind # "none" THEN "exit"
                    ELSE IF r.generate THEN "generate" ELSE "names"
    /\ UNCHANGED <<fs, scanner, env, i, protocol_header, generated_header,
                   output_dir, printed, invoked, include0, prev, seat>>

\* check, lines 49-59
CheckNames ==
    /\ pc = "names"
    /\ error' = FilenameSets(Expected(protocols), DOMAIN Include)
    /\ pc' = IF error'.kind # "none" THEN "exit" ELSE "open"
    /\ UNCHANGED <<fs, scanner, env, protocols, generate_headers, i,
                   protocol_header, generated_header, output_dir, printed,
                   invoked, include0, prev, seat>>

\* check, lines 61-64: the next document, or the end of the loop
CheckOpen ==
    /\ pc = "open"
    /\ IF i > Len(protocols)
       THEN /\ pc' = "exit"
            /\ UNCHANGED <<protocol_header, error>>
       ELSE LET name == header_filename(protocols[i])
            IN  IF name \in DOMAIN Include
                THEN /\ protocol_header' = Include[name]
                     /\ pc' = "mktemp"
                     /\ UNCHANGED error
                ELSE /\ error' = [kind |-> "open", name |-> name]
                     /\ pc' = "exit"
                     /\ UNCHANGED protocol_header
    /\ UNCHANGED <<fs, scanner, env, protocols, generate_headers, i,
                   generated_header, output_dir, printed, invoked, include0,
                   prev, seat>>

\* check, line 66: entering the with block
CheckMkTemp ==
    /\ pc = "mktemp"
    /\ output_dir' = mkdtemp(fs)
    /\ fs' = MkDir(fs, output_dir')
    /\ pc' = "scan"
    /\ UNCHANGED <<scanner, env, protocols, generate_headers, i,
                   protocol_header, generated_header, error, printed, invoked,
                   include0, prev, seat>>

\* check, lines 67-69; an exception leaves the with block
CheckScan ==
    /\ pc = "scan"
    /\ LET r == generate_protocol_header(fs, protocols[i], output_dir,
                                         scanner[protocols[i]])
       IN  IF r.raised
           THEN /\ fs' = TmpDirExit(r.fs, output_dir)
                /\ output_dir' = ""
                /\ error' = [kind |-> "generator", name |-> Name(protocols[i])]
                /\ pc' = "exit"
           ELSE /\ fs' = r.fs
                /\ pc' = "read"
                /\ UNCHANGED <<output_dir, error>>
    /\ invoked' = Append(invoked, protocols[i])
    /\ UNCHANGED <<scanner, env, protocols, generate_headers, i,
                   protocol_header, generated_header, printed, include0, prev,
                   seat>>

\* check, lines 70-71; an exception leaves the with block
CheckRead ==
    /\ pc = "read"
    /\ LET name == header_filename(protocols[i])
       IN  IF name \in DOMAIN fs[output_dir]
           THEN /\ generated_header' = fs[output_dir][name]
                /\ pc' = "leave"
                /\ UNCHANGED <<fs, output_dir, error>>
           ELSE /\ fs' = TmpDirExit(fs, output_dir)
                /\ output_dir' = ""
                /\ error' = [kind |-> "open", name |-> name]
                /\ pc' = "exit"
                /\ UNCHANGED generated_header
    /\ UNCHANGED <<scanner, env, protocols, generate_headers, i,
                   protocol_header, printed, invoked, include0, prev, seat>>

\* check, line 66: leaving the with block at its end
CheckLeave ==
    /\ pc = "leave"
    /\ fs' = TmpDirExit(fs, output_dir)
    /\ output_dir' = ""
    /\ pc' = "compare"
    /\ UNCHANGED <<scanner, env, protocols, generate_headers, i,
                   protocol_header, generated_header, error, printed, invoked,
                   include0, prev, seat>>

\* check, lines 73-82
CheckCompare ==
    /\ pc = "compare"
    /\ LET r == Compare(protocol_header, generated_header, Name(protocols[i]))
       IN  /\ error' = r.error
           /\ printed' = printed \o r.printed
           /\ IF r.error.kind # "none"
              THEN pc' = "exit" /\ UNCHANGED i
              ELSE pc' = "open" /\ i' = i + 1
    /\ UNCHANGED <<fs, scanner, env, protocols, generate_headers,
                   protocol_header, generated_header, output_dir, invoked,
                   include0, prev, seat>>

\* generate, lines 85-87: the next document, or the end of the loop
Generate ==
    /\ pc = "generate"
    /\ IF i > Len(protocols)
       THEN /\ pc' = "exit"
            /\ UNCHANGED <<fs, i, error, invoked>>
       ELSE LET r == generate_protocol_header(fs, protocols[i], INCLUDE_PATH,
                                              scanner[protocols[i]])
            IN  /\ fs' = r.fs
                /\ invoked' = Append(invoked, protocols[i])
                /\ IF r.raised
                   THEN /\ error' = [kind |-> "generator",
                                     name |-> Name(protocols[i])]
                        /\ pc' = "exit"
                        /\ UNCHANGED i
                   ELSE /\ i' = i + 1
                        /\ UNCHANGED <<pc, error>>
    /\ UNCHANGED <<scanner, env, protocols, generate_headers, protocol_header,
                   generated_header, output_dir, printed, include0, prev, seat>>

\* The process has ended; the script is run again, with or without --generate.
\* Only the directories survive.
NoRun == [mode |-> "none", ok |-> FALSE, clean |-> FALSE]
Rerun ==
    /\ pc = "exit"
    /\ pc' = "start"
    /\ \E g \in BOOLEAN : env' = [env EXCEPT !.generate = g]
    /\ prev' = [mode |-> IF generate_headers THEN "generate" ELSE "check",
                ok |-> ~Raised,
                clean |-> (DOMAIN include0) \subseteq Expected(protocols)]
    /\ include0' = Include
    /\ protocols' = <<>>
    /\ generate_headers' = FALSE
    /\ i' = 1
    /\ protocol_header' = <<>>
    /\ generated_header' = <<>>
    /\ output_dir' = ""
    /\ error' = NoError
    /\ printed' = <<>>
    /\ invoked' = <<>>
    /\ UNCHANGED <<fs, scanner, seat>>

----------------------------------------------------------------------------
(* Seat.  ffi.gc(ptr, lib.wlr_seat_destroy) ties the native destructor to   *)
(* the cdata object; ffi.release runs it at once, and only once.            *)

Capabilities == 0..7
NewSeat ==
    [_ptr |-> "cdata", released |-> FALSE, destroyed |-> 0, capabilities |-> 0,
     entered |-> FALSE, raised |-> FALSE, calls |-> <<>>]

ffi_release(s) ==
    IF s.released THEN s
    ELSE [s EXCEPT !.released = TRUE, !.destroyed = @ + 1]

Seat_destroy_direct(s) ==
    IF s._ptr # "None" THEN [s EXCEPT !.destroyed = @ + 1] ELSE s
Seat_destroy(s) ==
    IF s._ptr # "None" THEN [ffi_release(s) EXCEPT !._ptr = "None"] ELSE s

\* cffi refuses None where a struct wlr_seat * is expected
Seat_set_capabilities(s, capabilities) ==
    IF s._ptr = "None" THEN [s EXCEPT !.raised = TRUE]
    ELSE [s EXCEPT !.capabilities = capabilities, !.raised = FALSE]

SeatDestroy ==
    /\ Len(seat.calls) < MaxSeatCalls
    /\ seat' = [Seat_destroy(seat) EXCEPT !.raised = FALSE,
                                          !.calls = Append(@, "destroy")]
    /\ UNCHANGED <<fs, scanner, env, pc, protocols, generate_headers, i,
                   protocol_header, generated_header, output_dir, error,
                   printed, invoked, include0, prev>>

SeatSetCapabilities ==
    /\ \E c \in Capabilities : seat' = Seat_set_capabilities(seat, c)
    /\ UNCHANGED <<fs, scanner, env, pc, protocols, generate_headers, i,
                   protocol_header, generated_header, output_dir, error,
                   printed, invoked, include0, prev>>

SeatEnter ==
    /\ ~seat.entered
    /\ seat' = [seat EXCEPT !.entered = TRUE, !.raised = FALSE]
    /\ UNCHANGED <<fs, scanner, env, pc, protocols, generate_headers, i,
                   protocol_header, generated_header, output_dir, error,
                   printed, invoked, include0, prev>>

SeatExit ==
    /\ seat.entered
    /\ Len(seat.calls) < MaxSeatCalls
    /\ seat' = [Seat_destroy(seat) EXCEPT !.entered = FALSE, !.raised = FALSE,
                                          !.calls = Append(@, "__exit__")]
    /\ UNCHANGED <<fs, scanner, env, pc, protocols, generate_headers, i,
                   protocol_header, generated_header, output_dir, error,
                   printed, invoked, include0, prev>>

----------------------------------------------------------------------------
(* Initial states.                                                          *)

AllXml ==
    Range(Configured(WAYLAND_PROCOTOLS)) \cup Range(Configured(WLROOTS_PROTOCOLS))
UsualEnv(g) ==
    [pkgconf |-> [started |-> TRUE, exit |-> 0,
                  output |-> "/usr/share/wayland-protocols"],
     wayland_dir |-> "None", wlroots_dir |-> "/src/wlroots",
     generate |-> g, xml |-> AllXml]
UsualProtocols == Protocols("/usr/share/wayland-protocols", "/src/wlroots")
Docs == Range(UsualProtocols)

Envs ==
    [pkgconf : PkgconfRuns,
     wayland_dir : {"None", "/opt/wayland-protocols", "/nonexistent"},
     wlroots_dir : {"None", "/src/wlroots", "/nonexistent"},
     generate : BOOLEAN,
     xml : SUBSET AllXml]

StaleLines == << [text |-> "a", nl |-> TRUE] >>
IncludeDirs(files) ==
    LET headers == UNION {[S -> files] : S \in SUBSET Expected(UsualProtocols)}
    IN  headers \cup {WriteFile(d, StaleHeader, StaleLines) : d \in headers}

\* Before the process starts: nothing parsed, no temporary directory.
InitRun(inc, scan, e) ==
    /\ fs = [p \in {INCLUDE_PATH} |-> inc]
    /\ scanner = scan
    /\ env = e
    /\ pc = "start"
    /\ protocols = <<>>
    /\ generate_headers = FALSE
    /\ i = 1
    /\ protocol_header = <<>>
    /\ generated_header = <<>>
    /\ output_dir = ""
    /\ error = NoError
    /\ printed = <<>>
    /\ invoked = <<>>
    /\ include0 = inc
    /\ prev = NoRun
    /\ seat = NewSeat

\* Every file of the include directory and every behaviour of wayland-scanner.
InitWide ==
    \E inc \in IncludeDirs(TerminatedFiles(MaxLines)),
       scan \in [Docs -> ScannerRuns(TerminatedFiles(MaxLines))],
       g \in BOOLEAN :
        InitRun(inc, scan, UsualEnv(g))

\* Longer headers for the first document, its checked-in header and its
\* generated header varying independently; the other document has empty ones.
InitDeep ==
    \E h \in ReadLines(CmpMaxLines), gen \in ReadLines(CmpMaxLines),
       g \in BOOLEAN :
        InitRun([n \in Expected(UsualProtocols) |->
                    IF n = header_filename(UsualProtocols[1]) THEN h ELSE <<>>],
                [d \in Docs |->
                    [exit |-> 0, write |-> TRUE,
                     out |-> IF d = UsualProtocols[1] THEN gen ELSE <<>>]],
                UsualEnv(g))

Init == InitWide \/ InitDeep

Next ==
    \/ ParseArgs
    \/ CheckNames
    \/ CheckOpen
    \/ CheckMkTemp
    \/ CheckScan
    \/ CheckRead
    \/ CheckLeave
    \/ CheckCompare
    \/ Generate
    \/ Rerun

Spec == Init /\ [][Next]_vars

\* Every command line and every behaviour of pkgconf, up to the end of
\* parse_args.
InitArgs ==
    \E e \in Envs :
        InitRun([n \in Expected(UsualProtocols) |-> <<>>],
                [d \in Docs |-> [exit |-> 0, write |-> TRUE, out |-> <<>>]],
                e)
NextArgs == ParseArgs
SpecArgs == InitArgs /\ [][NextArgs]_vars

\* One Seat, used in every order.
InitSeat ==
    InitRun([n \in Expected(UsualProtocols) |-> <<>>],
            [d \in Docs |-> [exit |-> 0, write |-> TRUE, out |-> <<>>]],
            UsualEnv(FALSE))
NextSeat ==
    \/ SeatDestroy
    \/ SeatSetCapabilities
    \/ SeatEnter
    \/ SeatExit
SpecSeat == InitSeat /\ [][NextSeat]_vars

----------------------------------------------------------------------------
(* Properties.                                                              *)

CheckEnded == pc = "exit" /\ protocols # <<>> /\ ~generate_headers
GenerateEnded == pc = "exit" /\ generate_headers
InWith == pc \in {"scan", "read", "leave"}

\* E = {stem(d)-protocol.h : d in D} and A, the names in the include directory
\* when the run started
E == {Stem(protocols[k]) \o "-protocol.h" : k \in DOMAIN protocols}
A == DOMAIN include0
Header(k) == Stem(protocols[k]) \o "-protocol.h"

\* the file named n is the same as when the run started
Untouched(n) ==
    /\ n \in DOMAIN Include <=> n \in DOMAIN include0
    /\ n \in DOMAIN Include => Include[n] = include0[n]

\* C1: check fails at the filename-set comparison exactly when A differs from
\* E; the error then carries missing = E \ A and extra = A \ E; while A = E
\* the comparison raises nothing and the documents are scanned.
C1_FilenameSets ==
    /\ pc \in {"open", "mktemp", "scan", "read", "leave", "compare"} =>
           A = E /\ ~Raised
    /\ CheckEnded =>
           /\ error.kind = "names" <=> A # E
           /\ error.kind = "names" =>
                  error.missing = E \ A /\ error.extra = A \ E

\* include holds the headers of xdg-shell and xdg-decoration, the
\* configuration lists xdg-shell and idle
C1_Witness ==
    /\ CheckEnded
    /\ A = {"xdg-shell-protocol.h", StaleHeader}
    /\ error = [kind |-> "names", missing |-> {"idle-protocol.h"},
                extra |-> {StaleHeader}]

\* C2: a check that returns without error leaves the include directory as it
\* found it, and the check run right after a successful check succeeds too,
\* printing nothing.
C2_CheckSideEffectFree ==
    /\ CheckEnded /\ ~Raised => Include = include0
    /\ CheckEnded /\ prev.mode = "check" /\ prev.ok =>
           ~Raised /\ printed = <<>> /\ Include = include0

C2_Witness ==
    /\ CheckEnded /\ prev.mode = "check" /\ prev.ok /\ ~Raised
    /\ \E n \in DOMAIN Include : Include[n] # <<>>

\* C3 as stated: from any state of the include directory, a generate that
\* completes (wayland-scanner having written a header for every document) is
\* followed by a check that succeeds.
C3_RoundTrip_AnyState ==
    /\ CheckEnded /\ prev.mode = "generate" /\ prev.ok
    /\ \A k \in DOMAIN protocols : scanner[protocols[k]].write
    => ~Raised

\* C3 as amended: a generate that completes, wayland-scanner having written a
\* header for every document, in an include directory that held no file other
\* than headers of the documents, is followed by a check that succeeds.
C3_RoundTrip ==
    /\ CheckEnded /\ prev.mode = "generate" /\ prev.ok /\ prev.clean
    /\ \A k \in DOMAIN protocols : scanner[protocols[k]].write
    => ~Raised

C3_Witness ==
    /\ CheckEnded /\ prev.mode = "generate" /\ prev.ok /\ prev.clean
    /\ \A k \in DOMAIN protocols : scanner[protocols[k]].write
    /\ ~Raised
    /\ \E n \in DOMAIN Include : Include[n] # <<>>

\* C4: at most one temporary directory exists at any moment, it exists only
\* inside the with block, and none is left when the run has ended, however it
\* ended.
C4_TemporaryDirectory ==
    /\ Cardinality(TmpDirs(fs)) <= 1
    /\ TmpDirs(fs) # {} => InWith /\ TmpDirs(fs) = {output_dir}
    /\ pc = "exit" => TmpDirs(fs) = {}

\* the generator failed inside the with block
C4_Witness ==
    /\ CheckEnded /\ error.kind = "generator" /\ Len(invoked) = 2
    /\ TmpDirs(fs) = {}

\* document k's generation fails or gives something else than its checked-in
\* header
Diverges(k) ==
    LET run == scanner[protocols[k]]
    IN  \/ run.exit # 0
        \/ ~run.write
        \/ run.out # include0[Header(k)]

\* C5: in the scan over the documents (the filename sets being equal), check
\* ends with an error of the first diverging document, wayland-scanner having
\* run once on each document up to that one, in order, and on no later one;
\* without a diverging document it runs once on each and check succeeds.
C5_FirstFailingDocument ==
    CheckEnded /\ A = E =>
        LET bad == {k \in DOMAIN protocols : Diverges(k)}
        IN  IF bad = {}
            THEN ~Raised /\ invoked = protocols
            ELSE /\ Raised
                 /\ error.name \in {Name(protocols[Min(bad)]), Header(Min(bad))}
                 /\ invoked = SubSeq(protocols, 1, Min(bad))

\* both documents diverge; only the first is reported
C5_Witness ==
    /\ CheckEnded /\ A = E
    /\ \A k \in DOMAIN protocols : Diverges(k)
    /\ error.kind = "mismatch" /\ error.name = Name(protocols[1])
    /\ invoked = <<protocols[1]>>

\* the two headers of a document have been compared: the comparison raised, or
\* it passed and the loop went on
Passed ==
    \/ pc = "open" /\ i > 1
    \/ CheckEnded /\ ~Raised /\ i > 1
Failed == CheckEnded /\ error.kind \in {"linecount", "mismatch"}
Differing ==
    {k \in DOMAIN protocol_header :
        k \in DOMAIN generated_header /\ protocol_header[k] # generated_header[k]}

\* C6: when the two headers of a document have the same number of lines and
\* differ, the comparison raises a content mismatch naming the document and
\* the smallest differing index, counted from 0, having printed both lines at
\* that index without their newline; when they do not differ it raises no
\* content mismatch.
C6_FirstDifferingLine ==
    /\ Failed /\ Len(protocol_header) = Len(generated_header) =>
           /\ Differing # {}
           /\ error = [kind |-> "mismatch", name |-> Name(protocols[i]),
                       line |-> Min(Differing) - 1]
           /\ printed =
                  << <<"Expected:", generated_header[Min(Differing)].text>>,
                     <<"Got:", protocol_header[Min(Differing)].text>> >>
    /\ Passed /\ Len(protocol_header) = Len(generated_header) =>
           Differing = {}
    /\ CheckEnded /\ error.kind = "mismatch" =>
           Len(protocol_header) = Len(generated_header) /\ Differing # {}

\* the first lines agree, the second ones differ
C6_Witness ==
    /\ Failed /\ error.kind = "mismatch" /\ error.line = 1
    /\ Len(protocol_header) = 2 /\ Len(generated_header) = 2
    /\ protocol_header[1] = generated_header[1]

\* C7: when the two headers of a document have different numbers of lines, the
\* comparison raises a line-count mismatch naming the document, with no line
\* index, and nothing has been printed: no line was compared, even if lines
\* at an index of both differ.
C7_LineCount ==
    /\ (Passed \/ Failed) /\ Len(protocol_header) # Len(generated_header) =>
           /\ Failed
           /\ error = [kind |-> "linecount", name |-> Name(protocols[i])]
           /\ printed = <<>>
    /\ CheckEnded /\ error.kind = "linecount" =>
           Len(protocol_header) # Len(generated_header)

C7_Witness ==
    /\ Failed /\ error.kind = "linecount"
    /\ Len(protocol_header) # Len(generated_header)
    /\ Differing # {}

\* C8: generate raises at the first document wayland-scanner fails on; the
\* headers of the documents before it hold what was generated, the headers of
\* the documents after it are as they were, and generate never writes or
\* removes a file that is not a header of a document.
C8_GenerateNoRollback ==
    /\ pc = "generate" \/ GenerateEnded =>
           \A n \in (DOMAIN Include \cup DOMAIN include0) \ E : Untouched(n)
    /\ GenerateEnded =>
           LET failing == {k \in DOMAIN protocols : scanner[protocols[k]].exit # 0}
           IN  IF failing = {}
               THEN ~Raised /\ invoked = protocols
               ELSE /\ error = [kind |-> "generator",
                                name |-> Name(protocols[Min(failing)])]
                    /\ invoked = SubSeq(protocols, 1, Min(failing))
                    /\ \A k \in DOMAIN protocols :
                          /\ k < Min(failing) /\ scanner[protocols[k]].write =>
                                 /\ Header(k) \in DOMAIN Include
                                 /\ Include[Header(k)] = scanner[protocols[k]].out
                          /\ k < Min(failing) /\ ~scanner[protocols[k]].write =>
                                 Untouched(Header(k))
                          /\ k > Min(failing) => Untouched(Header(k))

\* the second document fails after the first header was rewritten, next to a
\* stale header
C8_Witness ==
    /\ GenerateEnded /\ error.kind = "generator" /\ Len(invoked) = 2
    /\ Header(1) \in DOMAIN include0
    /\ Include[Header(1)] # include0[Header(1)]
    /\ StaleHeader \in DOMAIN Include

\* C9: with an existing --wayland-dir, an existing --wlroots-dir and every
\* protocol document present, the run reaches check or generate, whatever
\* pkgconf did; and parse_args raises the wayland directory error only when
\* neither the option nor pkgconf gives an existing directory.
C9_PkgconfFailureNotFatal ==
    /\ /\ pc # "start"
       /\ env.wayland_dir \in ExistingDirs
       /\ env.wlroots_dir \in ExistingDirs
       /\ env.xml = AllXml
       => pc \in {"names", "generate"} /\ ~Raised
    /\ pc # "start" /\ error.kind = "wayland_dir" =>
           /\ env.wayland_dir \notin ExistingDirs
           /\ env.wayland_dir = "None" => env.pkgconf.output \notin ExistingDirs

\* C10: the native seat is destroyed exactly once, by the first destroy() or
\* __exit__; from then on _ptr is None and no later call destroys anything.
C10_SeatDestroyedOnce ==
    /\ seat.calls = <<>> => seat._ptr = "cdata" /\ seat.destroyed = 0
    /\ seat.calls # <<>> => seat._ptr = "None" /\ seat.destroyed = 1

C10_Witness ==
    /\ Len(seat.calls) >= 2
    /\ "destroy" \in Range(seat.calls) /\ "__exit__" \in Range(seat.calls)
    /\ seat.destroyed = 1

====
